---- MODULE Spec2Model ----
(***************************************************************************)
(* The auth orchestrator (AuthService: register, login, validate, logout)  *)
(* together with the in-memory collaborators of its test-suite             *)
(* (MemoryRepo, SimpleHasher, FakeToken) and a cache that drops an entry   *)
(* when its ttlSeconds have elapsed.                                       *)
(*                                                                         *)
(* Optional values (undefined / null) are sets: {} is absent, {v} is v.   *)
(* Strings built by the program are tuples of their parts.                 *)
(***************************************************************************)
EXTENDS Integers, Sequences, FiniteSets, TLC

\* ---------------------------------------------------------------- bounds
MaxTime == 2
MaxTokens == 1
DefaultLife == 2
MaxExp == 4
NumCalls == 3

\* ------------------------------------------------------------- constants
MsPerSec == 1000

Emails == {"a@a.com", "b@b.com"}
Passwords == {"secret", "wrong"}
RegisterPasswords == {"secret"}
TickMs == MsPerSec \div 2

VARIABLES
    cfg,        \* AuthDeps: which optional dependencies were passed to the constructor
    byId,       \* MemoryRepo.byId
    byEmail,    \* MemoryRepo.byEmail
    tokens,     \* the payloads the token manager has signed; token i is TokenString(i)
    cache,      \* the revocation cache: entries with their expiry instant
    now,        \* Date.now(), in milliseconds
    last,       \* the invocation that has just completed, as its caller saw it
    loggedOut,  \* history: token -> ms since its latest logout returned (up to MsPerSec)
    inflight,   \* register invocations suspended at an await: call -> its locals
    registered  \* history: email -> the input and the result of its successful register

vars == <<cfg, byId, byEmail, tokens, cache, now, last, loggedOut, inflight, registered>>

Some(opt) == CHOOSE v \in opt : TRUE

\* ---------------------------------------------------------------- errors
NoError == <<"none", "">>
AuthError(code) == <<"AuthError", code>>
ThrownBy(call) == <<"Error", call>>

\* -------------------------------------------------------------- hasher
hash(plain) == <<"hashed:", plain>>
\* A hasher whose compare never matches.
compare_Never(plain, hashed) == FALSE

compare(plain, hashed) == hashed = <<"hashed:", plain>>

\* ------------------------------------------------------------ user store
findByEmail(email) == IF email \in DOMAIN byEmail THEN {byEmail[email]} ELSE {}
findById(id) == IF id \in DOMAIN byId THEN {byId[id]} ELSE {}
\* A store that refuses a second user for an email it already holds.
createById_Unique(user) ==
    IF \E id \in DOMAIN byId : byId[id].email = user.email THEN byId
    ELSE [k \in DOMAIN byId \cup {user.id} |-> IF k = user.id THEN user ELSE byId[k]]

createById(user) == [k \in DOMAIN byId \cup {user.id} |-> IF k = user.id THEN user ELSE byId[k]]
createByEmail(user) ==
    [k \in DOMAIN byEmail \cup {user.email} |-> IF k = user.email THEN user ELSE byEmail[k]]

\* ---------------------------------------------------- user adapter functions
buildUser(data, hashed, id) == [id |-> id, email |-> data.email, passwordHash |-> hashed]
getUserId(u) == u.id
getPasswordHash(u) == u.passwordHash
UserId(n) == <<"user", n>>
OtherSub == UserId(0)
BuildClaimsKinds == {"none", "extra", "sub"}
buildClaims(user) ==
    IF cfg.buildClaims = "sub"
    THEN [sub |-> OtherSub, email |-> user.email]
    ELSE [email |-> user.email]

\* ---------------------------------------------------------- token manager
TokenString(i) == <<"tok", i>>
Garbage == TokenString(0)
TokenStrings == {TokenString(i) : i \in 0..Len(tokens)}
\* What the configured token manager puts in a token: FakeToken signs a jti and
\* an exp; the port makes both optional.
TokenShapes == {[jti |-> TRUE, exp |-> TRUE], [jti |-> FALSE, exp |-> FALSE]}

issue(claims, options) ==
    LET i == Len(tokens) + 1
        jti == IF cfg.token.jti THEN {<<"jti", i>>} ELSE {}
        life == IF options = {} THEN DefaultLife ELSE Some(options)
        exp == IF cfg.token.exp THEN {(now \div MsPerSec) + life} ELSE {}
    IN  [token |-> TokenString(i),
         tokens |-> Append(tokens, [claims |-> claims, jti |-> jti, exp |-> exp])]

\* A verifier that never looks at exp.
verifyExpired_Never(obj) == FALSE

verifyExpired(obj) == obj.exp # {} /\ Some(obj.exp) <= now \div MsPerSec

verify(token) ==
    IF token[2] \notin DOMAIN tokens
    THEN [ok |-> FALSE, error |-> ThrownBy("malformed")]
    ELSE LET obj == tokens[token[2]] IN
         IF verifyExpired(obj)
         THEN [ok |-> FALSE, error |-> ThrownBy("expired")]
         ELSE [ok |-> TRUE, vt |-> obj]

\* ----------------------------------------------------------------- cache
cacheGet(key) ==
    LET live == {e \in cache : e.key = key /\ (e.expiresAt = {} \/ now < Some(e.expiresAt))}
    IN  {e.value : e \in live}
cacheSet(key, value, ttl) ==
    {e \in cache : e.key # key}
      \cup {[key |-> key, value |-> value,
             expiresAt |-> IF ttl = {} THEN {} ELSE {now + Some(ttl) * MsPerSec}]}

\* --------------------------------------------------- AuthService helpers
\* One revocation key for every token.
blacklistKey_Shared(jti, token) == <<"auth:blacklist:", <<"jti", 0>>>>

blacklistKey(jti, token) == <<"auth:blacklist:", IF jti = {} THEN token ELSE Some(jti)>>

\* computeTtlSeconds without the clamp to a minimum of 1.
computeTtlSeconds_NoClamp(exp, nowMs) ==
    IF exp = {} \/ exp = {0} THEN {}
    ELSE {(Some(exp) * MsPerSec - nowMs) \div MsPerSec}

computeTtlSeconds(exp, nowMs) ==
    IF exp = {} \/ exp = {0} THEN {}
    ELSE LET ms == Some(exp) * MsPerSec - nowMs
             s == ms \div MsPerSec
         IN  {IF s > 0 THEN s ELSE 1}

Truthy(opt) == opt # {} /\ Some(opt) # ""

\* The outcome of one invocation: what was thrown, what was returned, the
\* collaborator calls made (in order), and the collaborators' state after it.
NoReturn == [void |-> TRUE]
Outcome(err, ret, calls, nById, nByEmail, nTokens, nCache) ==
    [err |-> err, caught |-> NoError, ret |-> ret, calls |-> calls,
     byId |-> nById, byEmail |-> nByEmail, tokens |-> nTokens, cache |-> nCache]
Throw(err, calls) == Outcome(err, NoReturn, calls, byId, byEmail, tokens, cache)
Return(ret, calls) == Outcome(NoError, ret, calls, byId, byEmail, tokens, cache)
Call(name, arg) == <<name, arg>>

\* ------------------------------------------------------------- register
\* register without its existence check.
registerExists_Never(existing) == FALSE

registerExists(existing) == existing # {}
\* register rejecting a taken email only after it has hashed the password.
registerRejected_AfterHash(input, calls) ==
    Throw(AuthError("USER_EXISTS"), Append(calls, Call("hasher.hash", input.password)))

registerRejected(input, calls) == Throw(AuthError("USER_EXISTS"), calls)

register(input, id, fault) ==
    LET c1 == <<Call("userRepo.findByEmail", input.email)>> IN
    IF fault = "userRepo.findByEmail" THEN Throw(ThrownBy(fault), c1)
    ELSE
    LET existing == findByEmail(input.email) IN
    IF registerExists(existing) THEN registerRejected(input, c1)
    ELSE
    LET c2 == Append(c1, Call("hasher.hash", input.password)) IN
    IF fault = "hasher.hash" THEN Throw(ThrownBy(fault), c2)
    ELSE
    LET hashed == hash(input.password)
        entity == buildUser(input, hashed, id)
        c3 == Append(Append(c2, Call("buildUser", <<input, hashed>>)),
                     Call("userRepo.create", entity))
    IN
    IF fault = "userRepo.create" THEN Throw(ThrownBy(fault), c3)
    ELSE Outcome(NoError, [user |-> entity], c3,
                 createById(entity), createByEmail(entity), tokens, cache)

\* ---------------------------------------------------------------- login
EmptyMap == [k \in {} |-> ""]
Spread(a, b) == [k \in DOMAIN a \cup DOMAIN b |-> IF k \in DOMAIN b THEN b[k] ELSE a[k]]

loginClaims(user) ==
    Spread([sub |-> getUserId(user)],
           IF cfg.buildClaims # "none" THEN buildClaims(user) ELSE EmptyMap)

\* login telling an unknown email apart by an error of its own.
loginMissingUser_Distinct == AuthError("USER_NOT_FOUND")

loginMissingUser == AuthError("INVALID_CREDENTIALS")
loginBadPassword == AuthError("INVALID_CREDENTIALS")

login(input, fault) ==
    LET c1 == <<Call("userRepo.findByEmail", input.email)>> IN
    IF fault = "userRepo.findByEmail" THEN Throw(ThrownBy(fault), c1)
    ELSE
    LET found == findByEmail(input.email) IN
    IF found = {} THEN Throw(loginMissingUser, c1)
    ELSE
    LET user == Some(found)
        c2 == Append(c1, Call("hasher.compare", <<input.password, getPasswordHash(user)>>))
    IN
    IF fault = "hasher.compare" THEN Throw(ThrownBy(fault), c2)
    ELSE
    LET ok == compare(input.password, getPasswordHash(user)) IN
    IF ~ok THEN Throw(loginBadPassword, c2)
    ELSE
    LET claims == loginClaims(user)
        c3 == Append(c2, Call("token.issue", claims))
    IN
    IF fault = "token.issue" THEN Throw(ThrownBy(fault), c3)
    ELSE
    LET t == issue(claims, {}) IN
    Outcome(NoError, [user |-> user, token |-> t.token], c3, byId, byEmail, t.tokens, cache)

\* ------------------------------------------------------------- validate
Invalid == [valid |-> FALSE]
\* validate with a catch block that rethrows.
validateCatch_Rethrow(e, calls) == Throw(e, calls)

\* validate emptying the cache whenever it rejects a token.
validateCatch_Purge(e, calls) ==
    [Return(Invalid, Append(calls, Call("cache.del", "*"))) EXCEPT !.caught = e, !.cache = {}]

validateCatch(e, calls) == [Return(Invalid, calls) EXCEPT !.caught = e]
\* validate treating a subject missing from the store as an invalid token.
validateResult_RequireUser(vt, user) ==
    IF user = {} THEN [valid |-> FALSE]
    ELSE [valid |-> TRUE, claims |-> vt.claims, user |-> user]

validateResult(vt, user) == [valid |-> TRUE, claims |-> vt.claims, user |-> user]
validateBlacklisted(b) == Truthy(b)

validate(token, fault) ==
    LET c1 == <<Call("token.verify", token)>>
        v == verify(token)
    IN
    IF ~v.ok THEN validateCatch(v.error, c1)
    ELSE
    LET vt == v.vt
        key == blacklistKey(vt.jti, token)
        c2 == IF cfg.cache THEN Append(c1, Call("cache.get", key)) ELSE c1
    IN
    IF cfg.cache /\ fault = "cache.get" THEN validateCatch(ThrownBy(fault), c2)
    ELSE IF cfg.cache /\ validateBlacklisted(cacheGet(key))
    THEN validateCatch(AuthError("TOKEN_BLACKLISTED"), c2)
    ELSE
    LET c3 == Append(c2, Call("userRepo.findById", vt.claims.sub)) IN
    IF fault = "userRepo.findById" THEN validateCatch(ThrownBy(fault), c3)
    ELSE Return(validateResult(vt, findById(vt.claims.sub)), c3)

\* --------------------------------------------------------------- logout
\* logout without the early return for a missing cache.
logoutNoCache_Never == FALSE

logoutNoCache == ~cfg.cache
\* logout swallowing the verifier's rejection.
logoutRejected_Swallow(e, calls) == Return(NoReturn, calls)

\* logout wrapping the verifier's rejection in an error of its own.
logoutRejected_Wrap(e, calls) == Throw(AuthError("INVALID_TOKEN"), calls)

logoutRejected(e, calls) == Throw(e, calls)

\* logout starting cache.set without waiting for verify to return.
logoutWrite_BeforeVerify(vt, token, calls, fault) ==
    LET key == blacklistKey(vt.jti, token)
        ttl == computeTtlSeconds(vt.exp, now)
    IN  Outcome(NoError, NoReturn, <<Call("cache.set", <<key, "1", ttl>>)>> \o calls,
                byId, byEmail, tokens, cacheSet(key, "1", ttl))

logoutWrite(vt, token, calls, fault) ==
    LET key == blacklistKey(vt.jti, token)
        ttl == computeTtlSeconds(vt.exp, now)
        c2 == Append(calls, Call("cache.set", <<key, "1", ttl>>))
    IN
    IF fault = "cache.set" THEN Throw(ThrownBy(fault), c2)
    ELSE Outcome(NoError, NoReturn, c2, byId, byEmail, tokens, cacheSet(key, "1", ttl))

logout(token, fault) ==
    IF logoutNoCache THEN Return(NoReturn, <<>>)
    ELSE
    LET c1 == <<Call("token.verify", token)>>
        v == verify(token)
    IN
    IF ~v.ok THEN logoutRejected(v.error, c1)
    ELSE logoutWrite(v.vt, token, c1, fault)

\* ======================================================= the state machine
Idle == [op |-> "none", arg |-> <<>>, err |-> NoError, caught |-> NoError,
         ret |-> NoReturn, calls |-> <<>>]

Configs == [cache : BOOLEAN, buildClaims : BuildClaimsKinds, token : TokenShapes]

Init ==
    /\ cfg \in Configs
    /\ byId = EmptyMap
    /\ byEmail = EmptyMap
    /\ tokens = <<>>
    /\ cache = {}
    /\ now = 0
    /\ last = Idle
    /\ loggedOut = EmptyMap
    /\ inflight = EmptyMap
    /\ registered = EmptyMap

\* An injected collaborator failure counts only if the invocation reached it.
Reached(fault, r) == fault = "none" \/ ThrownBy(fault) \in {r.err, r.caught}

\* One invocation, start to finish: its effects on the collaborators and what
\* its caller gets back.
Apply(op, arg, r) ==
    /\ byId' = r.byId
    /\ byEmail' = r.byEmail
    /\ tokens' = r.tokens
    /\ cache' = r.cache
    /\ last' = [op |-> op, arg |-> arg, err |-> r.err, caught |-> r.caught,
                ret |-> r.ret, calls |-> r.calls]
    /\ UNCHANGED <<cfg, now, inflight>>

RegisterFaults == {"none", "userRepo.findByEmail", "hasher.hash", "userRepo.create"}
LoginFaults == {"none", "userRepo.findByEmail", "hasher.compare", "token.issue"}
ValidateFaults == {"none", "cache.get", "userRepo.findById"}
LogoutFaults == {"none", "cache.set"}

Register ==
    /\ last = Idle
    /\ \E email \in Emails, password \in RegisterPasswords, fault \in RegisterFaults :
        LET input == [email |-> email, password |-> password]
            id == UserId(Cardinality(DOMAIN byId) + 1)
        IN  \E r \in {register(input, id, fault)} :
                /\ Reached(fault, r)
                /\ Apply("register", input, r)
                /\ registered' = IF r.err = NoError
                                 THEN [e \in DOMAIN registered \cup {email} |->
                                          IF e = email
                                          THEN [input |-> input, user |-> r.ret.user]
                                          ELSE registered[e]]
                                 ELSE registered
                /\ UNCHANGED loggedOut

Login ==
    /\ last = Idle
    /\ \E email \in Emails, password \in Passwords, fault \in LoginFaults :
        LET input == [email |-> email, password |-> password] IN
        \E r \in {login(input, fault)} :
            /\ Reached(fault, r)
            /\ Len(r.tokens) <= MaxTokens
            /\ Apply("login", input, r)
            /\ UNCHANGED <<loggedOut, registered>>

Validate ==
    /\ last = Idle
    /\ \E token \in TokenStrings, fault \in ValidateFaults :
        \E r \in {validate(token, fault)} :
            /\ Reached(fault, r)
            /\ Apply("validate", token, r)
            /\ UNCHANGED <<loggedOut, registered>>

Logout ==
    /\ last = Idle
    /\ \E token \in TokenStrings, fault \in LogoutFaults :
        \E r \in {logout(token, fault)} :
            /\ Reached(fault, r)
            /\ Apply("logout", token, r)
            /\ loggedOut' = IF r.err = NoError
                            THEN [t \in DOMAIN loggedOut \cup {token} |->
                                     IF t = token THEN 0 ELSE loggedOut[t]]
                            ELSE loggedOut
            /\ UNCHANGED registered

\* The application signs a token itself, as the test-suite does for a
\* subject that is no user of the store.
IssueDirect ==
    /\ last = Idle
    /\ Len(tokens) < MaxTokens
    /\ tokens' = issue([sub |-> OtherSub], {1}).tokens
    /\ last' = Idle
    /\ UNCHANGED <<cfg, byId, byEmail, cache, now, loggedOut, inflight, registered>>

Tick ==
    /\ last = Idle
    /\ now + TickMs <= MaxTime * MsPerSec
    /\ now' = now + TickMs
    /\ last' = Idle
    /\ loggedOut' = [t \in DOMAIN loggedOut |->
                        IF loggedOut[t] + TickMs < MsPerSec
                        THEN loggedOut[t] + TickMs ELSE MsPerSec]
    /\ UNCHANGED <<cfg, byId, byEmail, tokens, cache, inflight, registered>>

\* The caller takes the result (or the error) of the invocation that has
\* completed; calls do not overlap, so the next one starts after that.
TakeResult ==
    /\ last # Idle
    /\ last' = Idle
    /\ UNCHANGED <<cfg, byId, byEmail, tokens, cache, now, loggedOut, inflight, registered>>

Next == Register \/ Login \/ Validate \/ Logout \/ IssueDirect \/ Tick \/ TakeResult

Spec == Init /\ [][Next]_vars

\* ------------------------------------------------------------------------
\* logout's tail (key, TTL, cache.set) on whatever a token manager may hand
\* back from verify: any exp, present or not, at any clock reading.
TtlConfig == [cache |-> TRUE, buildClaims |-> "none", token |-> [jti |-> TRUE, exp |-> TRUE]]
AnyExp == {{}} \cup {{e} : e \in 0..MaxExp}
AnyJti == {{}, {<<"jti", 1>>}}
Instants == {k * TickMs : k \in 0..(2 * MaxTime)}

InitTtl ==
    /\ cfg = TtlConfig
    /\ byId = EmptyMap
    /\ byEmail = EmptyMap
    /\ \E jti \in AnyJti, exp \in AnyExp :
          tokens = <<[claims |-> [sub |-> OtherSub], jti |-> jti, exp |-> exp]>>
    /\ cache = {}
    /\ now \in Instants
    /\ last = Idle
    /\ loggedOut = EmptyMap
    /\ inflight = EmptyMap
    /\ registered = EmptyMap

LogoutVerified ==
    /\ last = Idle
    /\ \E token \in {TokenString(1)} :
        \E r \in {logoutWrite(tokens[1], token, <<Call("token.verify", token)>>, "none")} :
            /\ Apply("logout", token, r)
            /\ loggedOut' = [t \in {token} |-> 0]
            /\ UNCHANGED registered

NextTtl == LogoutVerified \/ Tick \/ TakeResult

SpecTtl == InitTtl /\ [][NextTtl]_vars

\* ------------------------------------------------------------------------
\* register calls that overlap. Each await of register (findByEmail, hash,
\* create) is a point where another call may run; a call's locals live in
\* inflight between its steps. No lock is taken anywhere in register.
Calls == 1..NumCalls
RaceConfig == [cache |-> TRUE, buildClaims |-> "none", token |-> [jti |-> TRUE, exp |-> TRUE]]
NotStarted == [pc |-> "start"]
\* buildUser draws a random id: one no stored or pending entity has.
Pending == {c \in Calls : inflight[c].pc = "built"}
FreshId == UserId(Cardinality(DOMAIN byId) + Cardinality(Pending) + 1)

InitRace ==
    /\ cfg = RaceConfig
    /\ byId = EmptyMap
    /\ byEmail = EmptyMap
    /\ tokens = <<>>
    /\ cache = {}
    /\ now = 0
    /\ last = Idle
    /\ loggedOut = EmptyMap
    /\ inflight = [c \in Calls |-> NotStarted]
    /\ registered = EmptyMap

Suspend(c, locals) ==
    /\ inflight' = [inflight EXCEPT ![c] = locals]
    /\ UNCHANGED <<cfg, tokens, cache, now, last, loggedOut, registered>>

\* const existing = await findByEmail(input.email); if (existing) throw
RegisterFind ==
    \E c \in Calls, email \in Emails, password \in RegisterPasswords :
        LET input == [email |-> email, password |-> password]
            existing == findByEmail(email)
        IN
        /\ inflight[c].pc = "start"
        /\ Suspend(c, IF registerExists(existing)
                      THEN [pc |-> "done", input |-> input, existing |-> existing,
                            err |-> AuthError("USER_EXISTS")]
                      ELSE [pc |-> "checked", input |-> input, existing |-> existing])
        /\ UNCHANGED <<byId, byEmail>>

\* const hashed = await hash(input.password); const entity = buildUser(input, hashed)
RegisterHash ==
    \E c \in Calls :
        /\ inflight[c].pc = "checked"
        /\ Suspend(c, [pc |-> "built", input |-> inflight[c].input,
                       existing |-> inflight[c].existing,
                       entity |-> buildUser(inflight[c].input,
                                            hash(inflight[c].input.password), FreshId)])
        /\ UNCHANGED <<byId, byEmail>>

\* const created = await create(entity); return created
RegisterCreate ==
    \E c \in Calls :
        /\ inflight[c].pc = "built"
        /\ byId' = createById(inflight[c].entity)
        /\ byEmail' = createByEmail(inflight[c].entity)
        /\ Suspend(c, [pc |-> "done", input |-> inflight[c].input,
                       existing |-> inflight[c].existing, err |-> NoError,
                       ret |-> inflight[c].entity])

NextRace == RegisterFind \/ RegisterHash \/ RegisterCreate

SpecRace == InitRace /\ [][NextRace]_vars

\* ------------------------------------------------------------------------
\* Two tokens in circulation, as any token manager may have signed them: with
\* or without a jti (two tokens may carry the same one), with or without exp.
TwoJti == {{}} \cup {{<<"jti", i>>} : i \in 1..2}
TwoExp == {{}} \cup {{e} : e \in 1..MaxTime}

InitTwo ==
    /\ cfg = TtlConfig
    /\ byId = EmptyMap
    /\ byEmail = EmptyMap
    /\ \E j1 \in TwoJti, j2 \in TwoJti, e1 \in TwoExp, e2 \in TwoExp :
          tokens = <<[claims |-> [sub |-> OtherSub], jti |-> j1, exp |-> e1],
                     [claims |-> [sub |-> OtherSub], jti |-> j2, exp |-> e2]>>
    /\ cache = {}
    /\ now = 0
    /\ last = Idle
    /\ loggedOut = EmptyMap
    /\ inflight = EmptyMap
    /\ registered = EmptyMap

NextTwo == Validate \/ Logout \/ Tick \/ TakeResult

SpecTwo == InitTwo /\ [][NextTwo]_vars

\* ================================================================= claims
CallNames(l) == [i \in DOMAIN l.calls |-> l.calls[i][1]]
CallArgs(l, name) == {l.calls[i][2] : i \in {j \in DOMAIN l.calls : l.calls[j][1] = name}}
Called(l, name) == CallArgs(l, name) # {}
\* No collaborator call of the invocation threw (a rejected token included).
NoCollaboratorFailure(l) == l.err[1] # "Error" /\ l.caught[1] # "Error"
Unexpired(token) ==
    /\ token[2] \in DOMAIN tokens
    /\ \A e \in tokens[token[2]].exp : now < e * MsPerSec
JustLoggedOut(token) == token \in DOMAIN loggedOut /\ loggedOut[token] < MsPerSec
UsersWithEmail(email) == {id \in DOMAIN byId : byId[id].email = email}

C2_SubjectWins ==
    last.op = "login" =>
        \A claims \in CallArgs(last, "token.issue") :
            claims.sub = getUserId(byEmail[last.arg.email])

\* What the caller of an invocation can observe of its outcome.
Observed(r) == [err |-> r.err, ret |-> r.ret, byId |-> r.byId, byEmail |-> r.byEmail,
                tokens |-> r.tokens, cache |-> r.cache]
WrongPassword(email, password) ==
    /\ findByEmail(email) # {}
    /\ ~compare(password, getPasswordHash(byEmail[email]))

\* C3: login with an unregistered email and login with a registered email and
\* a wrong password end the same way for the caller: AuthError
\* INVALID_CREDENTIALS, nothing returned, no token issued, store and cache
\* untouched.
C3_LoginFailuresIndistinguishable ==
    /\ last.op = "none" =>
        \A e1 \in Emails, e2 \in Emails, p \in Passwords :
          (findByEmail(e1) = {} /\ WrongPassword(e2, p)) =>
              /\ Observed(login([email |-> e1, password |-> p], "none"))
                   = Observed(login([email |-> e2, password |-> p], "none"))
              /\ Observed(login([email |-> e1, password |-> p], "none"))
                   = Observed(Throw(AuthError("INVALID_CREDENTIALS"), <<>>))
    /\ (last.op = "login" /\ NoCollaboratorFailure(last)
          /\ (findByEmail(last.arg.email) = {}
                \/ WrongPassword(last.arg.email, last.arg.password)))
         => /\ last.err = AuthError("INVALID_CREDENTIALS")
            /\ last.ret = NoReturn
            /\ ~Called(last, "token.issue")

C3_Witness ==
    /\ last.op = "login"
    /\ WrongPassword(last.arg.email, last.arg.password)
    /\ last.err = AuthError("INVALID_CREDENTIALS")
    /\ \E e \in Emails : findByEmail(e) = {}

\* C4: register calls made one after another: a register for an email that
\* already has a user fails with USER_EXISTS, and the store holds exactly one
\* user for every registered email.
C4_OneUserPerEmail ==
    /\ \A e \in Emails :
          Cardinality(UsersWithEmail(e)) = IF e \in DOMAIN byEmail THEN 1 ELSE 0
    /\ last.op = "none" =>
        \A e \in Emails, p \in Passwords :
          findByEmail(e) # {} =>
              register([email |-> e, password |-> p], UserId(Cardinality(DOMAIN byId) + 1),
                       "none").err = AuthError("USER_EXISTS")
    /\ (last.op = "register" /\ last.err = NoError) =>
          UsersWithEmail(last.arg.email) = {getUserId(last.ret.user)}
    /\ (last.op = "register" /\ last.err = AuthError("USER_EXISTS")) =>
          Cardinality(UsersWithEmail(last.arg.email)) = 1

C4_Witness ==
    /\ last.op = "register"
    /\ last.err = AuthError("USER_EXISTS")
    /\ DOMAIN byEmail = Emails
    /\ Cardinality(DOMAIN byId) = Cardinality(Emails)

\* C5: validate on the token a successful login has just returned gives
\* valid = true, claims.sub = the user's id, user = the registered user.
C5_RoundTrip ==
    (last.op = "login" /\ last.err = NoError) =>
        LET r == validate(last.ret.token, "none") IN
        /\ r.ret.valid = TRUE
        /\ r.ret.claims.sub = getUserId(last.ret.user)
        /\ r.ret.user = {last.ret.user}

\* Some step of validate failed: verify, a collaborator, or the marker check.
ValidateCause(l) ==
    LET v == verify(l.arg) IN
    \/ ~v.ok
    \/ l.caught # NoError
    \/ cfg.cache /\ Truthy(cacheGet(blacklistKey(v.vt.jti, l.arg)))

\* C6: validate never throws: whenever verify, cache.get or findById fails, or
\* a revocation marker is found, it returns exactly {valid: false}, the same
\* for every cause, and TOKEN_BLACKLISTED stays inside.
C6_ValidateNeverFails ==
    last.op = "validate" =>
        /\ last.err = NoError
        /\ ValidateCause(last) => last.ret = [valid |-> FALSE]
        /\ last.ret.valid = FALSE => DOMAIN last.ret = {"valid"}

C6_Witness ==
    /\ last.op = "validate"
    /\ last.caught = AuthError("TOKEN_BLACKLISTED")
    /\ last.err = NoError
    /\ last.ret = [valid |-> FALSE]

\* C7: whenever the verified token carries an expiration, the TTL logout
\* passes to cache.set is a defined integer >= 1.
C7_TtlAtLeastOne ==
    (last.op = "logout" /\ last.err = NoError /\ tokens[last.arg[2]].exp # {}) =>
        \A set \in CallArgs(last, "cache.set") :
            set[3] # {} /\ \A ttl \in set[3] : ttl >= 1

\* C8: with no cache configured logout(token) calls no collaborator, returns
\* without error and changes nothing, for every token string; a later
\* validate of the same unexpired token still returns valid = true, and
\* looks up no marker.
C8_NoCacheLogoutIsNoOp ==
    ~cfg.cache =>
        /\ last.op = "none" =>
              \A token \in TokenStrings, fault \in LogoutFaults :
                  logout(token, fault) = Return(NoReturn, <<>>)
        /\ last.op = "logout" =>
              last.calls = <<>> /\ last.err = NoError /\ last.ret = NoReturn
        /\ cache = {}
        /\ (last.op = "validate" /\ last.arg \in DOMAIN loggedOut
              /\ Unexpired(last.arg) /\ NoCollaboratorFailure(last))
             => last.ret.valid = TRUE /\ ~Called(last, "cache.get")

C8_Witness ==
    /\ ~cfg.cache
    /\ last.op = "validate" /\ last.arg \in DOMAIN loggedOut
    /\ Unexpired(last.arg) /\ tokens[last.arg[2]].exp # {}
    /\ last.ret.valid = TRUE

\* C9: with a cache configured, logout of a token that verify rejects fails
\* with the verifier's own error and writes nothing to the cache.
C9_LogoutRejectedToken ==
    cfg.cache =>
        /\ last.op = "none" =>
            \A token \in TokenStrings :
              ~verify(token).ok =>
                  /\ logout(token, "none").err = verify(token).error
                  /\ logout(token, "none").cache = cache
        /\ (last.op = "logout" /\ ~verify(last.arg).ok) =>
              /\ last.err = verify(last.arg).error
              /\ CallNames(last) = <<"token.verify">>

C9_Witness ==
    /\ cfg.cache
    /\ last.op = "logout"
    /\ last.err = ThrownBy("expired")
    /\ ~Called(last, "cache.set")

\* C10: a token that verifies, is not revoked and whose sub names no user of
\* the store validates as valid = true, with its claims and user = null.
C10_MissingSubjectStillValid ==
    (last.op = "validate" /\ verify(last.arg).ok /\ NoCollaboratorFailure(last)) =>
        LET vt == verify(last.arg).vt IN
        (/\ cfg.cache => ~Truthy(cacheGet(blacklistKey(vt.jti, last.arg)))
         /\ findById(vt.claims.sub) = {})
            => last.ret = [valid |-> TRUE, claims |-> vt.claims, user |-> {}]

C10_Witness ==
    /\ last.op = "validate"
    /\ cfg.buildClaims # "sub"
    /\ last.ret.valid = TRUE
    /\ last.ret.user = {}
    /\ last.ret.claims.sub = OtherSub

\* Calls of register that found no user for their email at findByEmail.
Passed(c) == inflight[c].pc # "start" /\ inflight[c].existing = {}
Returned(c) == inflight[c].pc = "done" /\ inflight[c].err = NoError
SameEmail(c, d) == c # d /\ inflight[c].input.email = inflight[d].input.email

\* C11: two overlapping register calls for one email that both pass
\* findByEmail before either creates both go on to userRepo.create: neither
\* fails with USER_EXISTS, and once both have returned the store (which
\* enforces no uniqueness) holds two users for that email.
C11_RaceDuplicates ==
    \A c \in Calls, d \in Calls :
        (Passed(c) /\ Passed(d) /\ SameEmail(c, d)) =>
            /\ inflight[c].pc = "done" =>
                  /\ inflight[c].err = NoError
                  /\ findById(getUserId(inflight[c].ret)) = {inflight[c].ret}
            /\ (Returned(c) /\ Returned(d)) =>
                  /\ getUserId(inflight[c].ret) # getUserId(inflight[d].ret)
                  /\ {getUserId(inflight[c].ret), getUserId(inflight[d].ret)}
                        \subseteq UsersWithEmail(inflight[c].input.email)

C11_Witness ==
    \E c \in Calls, d \in Calls :
        /\ Passed(c) /\ Passed(d) /\ SameEmail(c, d)
        /\ Returned(c) /\ Returned(d)
        /\ Cardinality(UsersWithEmail(inflight[c].input.email)) = 2

\* C12: after a successful register(email, password), login with the same
\* email and password succeeds: it returns the user whose id is the id of
\* the user register returned, and the token string token.issue returned;
\* register returns the entity userRepo.create returned.
C12_RegisterThenLogin ==
    /\ (last.op = "register" /\ last.err = NoError) =>
          /\ last.ret.user \in CallArgs(last, "userRepo.create")
          /\ registered[last.arg.email].user = last.ret.user
          /\ login(last.arg, "none").err = NoError
          /\ getUserId(login(last.arg, "none").ret.user) = getUserId(last.ret.user)
    /\ (last.op = "login" /\ NoCollaboratorFailure(last)
          /\ last.arg.email \in DOMAIN registered
          /\ last.arg = registered[last.arg.email].input) =>
          /\ last.err = NoError
          /\ getUserId(last.ret.user) = getUserId(registered[last.arg.email].user)
          /\ last.ret.token = TokenString(Len(tokens))
          /\ CallArgs(last, "token.issue") = {tokens[Len(tokens)].claims}

C12_Witness ==
    /\ last.op = "login"
    /\ last.err = NoError
    /\ last.arg = registered[last.arg.email].input
    /\ getUserId(last.ret.user) = getUserId(registered[last.arg.email].user)
    /\ last.ret.token = TokenString(Len(tokens))
    /\ Cardinality(DOMAIN registered) = 2

Issued(token) == token[2] \in DOMAIN tokens
PastExpiration(token) ==
    /\ Issued(token)
    /\ \E e \in tokens[token[2]].exp : now >= e * MsPerSec

\* C13: for a token issued with an expiration, every validate made once the
\* expiration time has passed returns valid = false, logged out or not.
C13_ExpiredIsInvalid ==
    /\ (last.op = "validate" /\ PastExpiration(last.arg)) =>
          /\ last.ret = [valid |-> FALSE]
          /\ last.caught = ThrownBy("expired")
    /\ last.op = "none" =>
        \A token \in TokenStrings :
          PastExpiration(token) => validate(token, "none").ret.valid = FALSE

C13_Witness ==
    /\ last.op = "validate"
    /\ PastExpiration(last.arg)
    /\ last.arg \notin DOMAIN loggedOut
    /\ last.ret = [valid |-> FALSE]
    /\ tokens[last.arg[2]].claims.sub \in DOMAIN byId

\* C14: a register that fails with USER_EXISTS has called findByEmail and
\* nothing else (no hasher.hash, no buildUser, no userRepo.create) and has
\* left the user store, the signed tokens and the cache as they were; and
\* every register for an email that has a user fails so.
C14_UserExistsNoSideEffects ==
    [][last'.op = "register" =>
        /\ last'.err = AuthError("USER_EXISTS") =>
              /\ last'.calls = <<Call("userRepo.findByEmail", last'.arg.email)>>
              /\ last'.ret = NoReturn
              /\ UNCHANGED <<byId, byEmail, tokens, cache>>
        /\ (findByEmail(last'.arg.email) # {} /\ NoCollaboratorFailure(last')) =>
              last'.err = AuthError("USER_EXISTS")]_vars

C14_Witness ==
    /\ last.op = "register"
    /\ last.err = AuthError("USER_EXISTS")
    /\ CallNames(last) = <<"userRepo.findByEmail">>
    /\ cache # {}

IsPrefix(s, t) == Len(s) <= Len(t) /\ s = SubSeq(t, 1, Len(s))
\* The calls an invocation made on its collaborators (the ports), in order.
PortCalls(l) == SelectSeq(CallNames(l), LAMBDA n : n # "buildUser")
CallOrder(op) ==
    CASE op = "register" -> <<"userRepo.findByEmail", "hasher.hash", "userRepo.create">>
      [] op = "login" -> <<"userRepo.findByEmail", "hasher.compare", "token.issue">>
      [] op = "validate" -> IF cfg.cache
                            THEN <<"token.verify", "cache.get", "userRepo.findById">>
                            ELSE <<"token.verify", "userRepo.findById">>
      [] op = "logout" -> IF cfg.cache THEN <<"token.verify", "cache.set">> ELSE <<>>
      [] OTHER -> <<>>

\* C15: the collaborator calls of one invocation are made one after another
\* in the fixed order of its operation, each after the previous one has
\* returned: on every step that runs an invocation, the calls made are an
\* initial part of that order, cut where the invocation ended, and a later
\* call is made only on, and with, what the earlier one returned.
C15_SequentialCalls ==
    [][last'.op # "none" =>
        /\ \A made \in {PortCalls(last')}, order \in {CallOrder(last'.op)} :
              /\ IsPrefix(made, order)
              /\ order # <<>> => made # <<>>
              /\ (last'.err = NoError /\ last'.caught = NoError) => made = order
        /\ last'.op = "register" =>
              \A entity \in CallArgs(last', "userRepo.create") :
                  /\ findByEmail(last'.arg.email) = {}
                  /\ getPasswordHash(entity) = hash(last'.arg.password)
                  /\ CallArgs(last', "buildUser") = {<<last'.arg, hash(last'.arg.password)>>}
        /\ last'.op = "login" =>
              /\ \A arg \in CallArgs(last', "hasher.compare") :
                    arg = <<last'.arg.password, getPasswordHash(byEmail[last'.arg.email])>>
              /\ \A claims \in CallArgs(last', "token.issue") :
                    /\ compare(last'.arg.password, getPasswordHash(byEmail[last'.arg.email]))
                    /\ claims = loginClaims(byEmail[last'.arg.email])
        /\ last'.op = "validate" =>
              /\ \A key \in CallArgs(last', "cache.get") :
                    key = blacklistKey(verify(last'.arg).vt.jti, last'.arg)
              /\ \A sub \in CallArgs(last', "userRepo.findById") :
                    /\ sub = verify(last'.arg).vt.claims.sub
                    /\ cfg.cache => ~Truthy(cacheGet(blacklistKey(verify(last'.arg).vt.jti,
                                                                  last'.arg)))
        /\ last'.op = "logout" =>
              \A set \in CallArgs(last', "cache.set") :
                  /\ verify(last'.arg).ok
                  /\ set[1] = blacklistKey(verify(last'.arg).vt.jti, last'.arg)]_vars

C15_Witness ==
    /\ last.op = "validate"
    /\ cfg.cache
    /\ PortCalls(last) = <<"token.verify", "cache.get", "userRepo.findById">>
    /\ last.ret.valid = TRUE
    /\ last.ret.user # {}

Max(a, b) == IF a >= b THEN a ELSE b

\* C16: the TTL logout passes to cache.set is absent when the verified token
\* carries no exp, and max(1, floor((exp*1000 - now) / 1000)) otherwise, for
\* every exp and every clock reading.
C16_TtlFormula ==
    (last.op = "logout" /\ last.err = NoError) =>
        \A set \in CallArgs(last, "cache.set") :
            set[3] = IF tokens[last.arg[2]].exp = {} THEN {}
                     ELSE {Max(1, (Some(tokens[last.arg[2]].exp) * MsPerSec - now)
                                    \div MsPerSec)}

LastCall(l) == PortCalls(l)[Len(PortCalls(l))]
\* The error a collaborator call of the invocation threw, as the call threw it.
OwnFailure(l) ==
    IF LastCall(l) = "token.verify" THEN verify(l.arg).error ELSE ThrownBy(LastCall(l))

\* C17: register, login and logout call each collaborator operation at most
\* once per invocation, and when a collaborator call throws, the invocation
\* ends there: it throws that same error, returns nothing, makes no further
\* call and has changed nothing.
C17_NoRetryNoWrap ==
    [][last'.op \in {"register", "login", "logout"} =>
        /\ \A made \in {PortCalls(last')} :
              \A i \in DOMAIN made, j \in DOMAIN made : made[i] = made[j] => i = j
        /\ last'.caught = NoError
        /\ last'.err[1] = "Error" =>
              /\ PortCalls(last') # <<>>
              /\ last'.err = OwnFailure(last')
              /\ last'.ret = NoReturn
              /\ UNCHANGED <<byId, byEmail, tokens, cache>>
        /\ last'.err = ThrownBy("hasher.hash") => ~Called(last', "userRepo.create")
        /\ last'.err = ThrownBy("token.issue") => last'.ret = NoReturn
        /\ (last'.op = "logout" /\ cfg.cache /\ ~verify(last'.arg).ok) =>
              last'.err = verify(last'.arg).error /\ ~Called(last', "cache.set")]_vars

C17_Witness ==
    /\ last.op = "register"
    /\ last.err = ThrownBy("hasher.hash")
    /\ PortCalls(last) = <<"userRepo.findByEmail", "hasher.hash">>
    /\ last.arg.email \notin DOMAIN byEmail

\* The collaborator operations AuthService uses (update and del are not among them).
UsedOperations ==
    {"userRepo.findByEmail", "userRepo.findById", "userRepo.create", "hasher.hash",
     "hasher.compare", "token.issue", "token.verify", "cache.get", "cache.set", "buildUser"}
\* What a step may do to the user store and the cache.
WritesOnlyByCreateAndSet ==
    /\ (byId' # byId \/ byEmail' # byEmail) =>
          /\ last'.op = "register" /\ last'.err = NoError
          /\ \E entity \in CallArgs(last', "userRepo.create") :
                byId' = createById(entity) /\ byEmail' = createByEmail(entity)
    /\ cache' # cache =>
          /\ last'.op = "logout" /\ last'.err = NoError
          /\ \E set \in CallArgs(last', "cache.set") : cache' = cacheSet(set[1], set[2], set[3])
    /\ last'.op \in {"login", "validate"} =>
          byId' = byId /\ byEmail' = byEmail /\ cache' = cache
    /\ \A i \in DOMAIN last'.calls : last'.calls[i][1] \in UsedOperations
    /\ \A id \in DOMAIN byId : id \in DOMAIN byId' /\ byId'[id] = byId[id]
    /\ \A e \in DOMAIN byEmail : e \in DOMAIN byEmail' /\ byEmail'[e] = byEmail[e]
FailedLogin == last'.op = "login" /\ last'.err # NoError

\* C18 as stated: the user store changes only by userRepo.create in a
\* successful register, the cache only by cache.set in logout; login and
\* validate write nothing; update and del are never called; no user is ever
\* modified or removed; and a failed login has called token.issue zero times.
C18_WritesOnlyByCreateAndSet ==
    [][/\ WritesOnlyByCreateAndSet
       /\ FailedLogin => ~Called(last', "token.issue")]_vars

\* C18, amended: the same, where a failed login has called token.issue zero
\* times unless it failed because token.issue itself threw; then it called
\* it once and no token came of it.
C18_WritesOnlyByCreateAndSet_Amended ==
    [][/\ WritesOnlyByCreateAndSet
       /\ (FailedLogin /\ last'.err # ThrownBy("token.issue")) => ~Called(last', "token.issue")
       /\ (FailedLogin /\ last'.err = ThrownBy("token.issue")) =>
             /\ Cardinality({i \in DOMAIN last'.calls : last'.calls[i][1] = "token.issue"}) = 1
             /\ last'.ret = NoReturn
       /\ FailedLogin => tokens' = tokens]_vars

C18_Witness ==
    /\ last.op = "login"
    /\ last.err = ThrownBy("token.issue")
    /\ Called(last, "token.issue")
    /\ tokens = <<>>
    /\ byId # EmptyMap

\* C19: with a cache that drops entries when their TTL elapses, the marker a
\* logout wrote for a token with an expiration is present at every later
\* time before that expiration: no validate(t) made after logout(t) returned
\* gives valid = true.
C19_RevokedForLife ==
    /\ (cfg.cache /\ last.op = "none") =>
        \A token \in DOMAIN loggedOut :
          (Unexpired(token) /\ tokens[token[2]].exp # {}) =>
              Truthy(cacheGet(blacklistKey(tokens[token[2]].jti, token)))
    /\ (cfg.cache /\ last.op = "validate" /\ last.arg \in DOMAIN loggedOut
          /\ tokens[last.arg[2]].exp # {})
         => last.ret.valid = FALSE

\* What identifies a token for revocation: its verified jti, else the raw string.
Identifier(token) ==
    IF Issued(token) /\ tokens[token[2]].jti # {} THEN Some(tokens[token[2]].jti) ELSE token

\* C20: validate and logout look up and write the same key for a token,
\* "auth:blacklist:" followed by its identifier, and logout(t1) changes the
\* result of validate(t2) for no token t2 whose identifier differs from t1's.
C20_LogoutRevokesOnlyItsKey ==
    [][/\ last'.op \in {"validate", "logout"} =>
             \A i \in DOMAIN last'.calls :
                 /\ last'.calls[i][1] = "cache.get" =>
                       last'.calls[i][2] = <<"auth:blacklist:", Identifier(last'.arg)>>
                 /\ last'.calls[i][1] = "cache.set" =>
                       last'.calls[i][2][1] = <<"auth:blacklist:", Identifier(last'.arg)>>
       /\ last'.op = "logout" =>
             \A t2 \in TokenStrings :
                 Identifier(t2) # Identifier(last'.arg) =>
                     validate(t2, "none")'.ret = validate(t2, "none").ret]_vars

C20_Witness ==
    /\ last.op = "logout" /\ last.err = NoError
    /\ validate(last.arg, "none").ret.valid = FALSE
    /\ \E t2 \in TokenStrings :
          /\ Issued(t2)
          /\ Identifier(t2) # Identifier(last.arg)
          /\ tokens[t2[2]].jti = {} /\ tokens[last.arg[2]].jti # {}
          /\ validate(t2, "none").ret.valid = TRUE

\* The markers the cache holds for the token, dropped ones excluded.
Markers(store, token) ==
    {e \in store : /\ e.key = blacklistKey(tokens[token[2]].jti, token)
                   /\ (e.expiresAt = {} \/ now < Some(e.expiresAt))}
\* Marker e2 keeps validate rejecting the token at least as long as marker e1.
LastsAsLongAs(e2, e1) ==
    e2.expiresAt = {} \/ (e1.expiresAt # {} /\ Some(e2.expiresAt) >= Some(e1.expiresAt))
\* A logout of a token that is revoked already and has not expired.
FurtherLogout ==
    /\ cfg.cache
    /\ last'.op = "logout"
    /\ last'.arg \in DOMAIN loggedOut
    /\ Unexpired(last'.arg)
    /\ Markers(cache, last'.arg) # {}

\* C21: logout is idempotent with respect to revocation: a further logout(t)
\* of a revoked, unexpired token reads no marker, succeeds, leaves exactly
\* one marker at the same key, and validate(t) is rejected after it wherever
\* it was rejected after the logouts before it.
C21_LogoutIdempotent ==
    [][FurtherLogout =>
        /\ ~Called(last', "cache.get")
        /\ NoCollaboratorFailure(last') => last'.err = NoError
        /\ last'.err = NoError =>
              \A token \in {t \in TokenStrings : t = last'.arg} :
                  /\ Cardinality({e \in cache' :
                          e.key = blacklistKey(tokens[token[2]].jti, token)}) = 1
                  /\ validate(token, "none")'.ret.valid = FALSE
                  /\ \A e1 \in Markers(cache, token), e2 \in Markers(cache', token) :
                        LastsAsLongAs(e2, e1)]_vars

====
